---- MODULE Spec2Model ----
(***************************************************************************)
(* Reservation API of respa (resources/api/reservation.py): the create,    *)
(* update, destroy, retrieve and list requests of ReservationViewSet, the  *)
(* checks of ReservationSerializer and ReservationPermission, and the row  *)
(* lock that validate() takes on the resource.                             *)
(*                                                                         *)
(* A request is handled by a worker in steps: the steps are the points at  *)
(* which another worker's committed writes can become visible (the request *)
(* runs in one database transaction; its writes are seen at the commit,    *)
(* which also releases the row lock).                                      *)
(***************************************************************************)
EXTENDS Integers, Sequences, FiniteSets, TLC

VARIABLES reservations, lock, req, started

vars == <<reservations, lock, req, started>>

(***************************************************************************)
(* Bounds of the model.                                                    *)
(***************************************************************************)
MaxReservations == 2
MaxRequests == 3
Now == 2

(***************************************************************************)
(* Reservation.STATE_CHOICES                                               *)
(***************************************************************************)
REQUESTED == "requested"
CONFIRMED == "confirmed"
DENIED == "denied"
CANCELLED == "cancelled"
States == {REQUESTED, CONFIRMED, DENIED, CANCELLED}

NoVal == "none"

(***************************************************************************)
(* Users: the user table (id -> user), and the anonymous request user.     *)
(* u1 is a normal user, radm administers resource r1 only and is neither   *)
(* staff nor approver, adm is global staff with approval permission.       *)
(***************************************************************************)
UserTable == <<"u1", "radm", "adm">>
Users == {UserTable[i] : i \in 1..Len(UserTable)}
AnonymousUser == "anon"
Actors == Users \cup {AnonymousUser}
\* user ids a payload can carry: 0 is "no user field", Len(UserTable)+1 is
\* a well-formed id of no existing user
UserData == 0..(Len(UserTable) + 1)

is_authenticated(user) == user \in Users
is_staff(user) == user = "adm"

(***************************************************************************)
(* Resources and their policy predicates.                                  *)
(***************************************************************************)
Resources == {"r1", "r2"}

need_manual_confirmation(resource) == resource = "r1"

is_admin(resource, user) ==
    is_staff(user) \/ (resource = "r1" /\ user = "radm")

can_approve_reservations(resource, user) ==
    is_admin(resource, user) /\ user = "adm"

can_make_reservations(resource, user) ==
    ~(resource = "r2" /\ user = "radm")

\* max_reservations_per_user of the resource; 0 is "no limit"
max_reservations_per_user(resource) == IF resource = "r1" THEN 1 ELSE 0

(***************************************************************************)
(* Periods a payload can carry, <<begin, end>>: one in the past, two that  *)
(* touch without overlapping, one that is empty.                           *)
(***************************************************************************)
Periods == {<<Now - 2, Now - 1>>, <<Now - 1, Now>>, <<Now, Now + 1>>, <<Now + 1, Now + 1>>}

PayloadStates == States \cup {NoVal}

NoInst == [resource |-> NoVal, user |-> NoVal, begin |-> 0, end |-> 0, state |-> NoVal]

Ids == 1..Len(reservations)

ActiveStates == {CONFIRMED, REQUESTED}

Overlaps(b1, e1, b2, e2) == e1 > b2 /\ b1 < e2

(***************************************************************************)
(* Resource.validate_reservation_period: the period must end after it      *)
(* begins.                                                                 *)
(***************************************************************************)
validate_reservation_period(resource, begin, end) == end > begin

(***************************************************************************)
(* Resource.validate_max_reservations_per_user: the number of active       *)
(* reservations the user holds on the resource is below the limit.         *)
(***************************************************************************)
validate_max_reservations_per_user(store, resource, user) ==
    \/ max_reservations_per_user(resource) = 0
    \/ Cardinality({i \in 1..Len(store) :
                        /\ store[i].resource = resource
                        /\ store[i].user = user
                        /\ store[i].state \in ActiveStates})
           < max_reservations_per_user(resource)

(***************************************************************************)
(* Reservation.clean(original_reservation): no active reservation of the   *)
(* resource, other than the original, overlaps the period.                 *)
(***************************************************************************)
clean(store, resource, begin, end, original) ==
    ~ \E i \in 1..Len(store) :
        /\ i # original
        /\ store[i].resource = resource
        /\ store[i].state \in ActiveStates
        /\ Overlaps(store[i].begin, store[i].end, begin, end)

(***************************************************************************)
(* Reservation.set_state(new_state, user): nothing when the state is the   *)
(* instance's state, otherwise the instance is saved with the new state.   *)
(* save() writes every field of the instance to its row.                   *)
(***************************************************************************)
set_state(store, id, inst, new_state) ==
    IF new_state = inst.state THEN store
    ELSE [store EXCEPT ![id] = [inst EXCEPT !.state = new_state]]

(***************************************************************************)
(* ReservationSerializer.validate_state                                    *)
(***************************************************************************)
AllowedStates == {REQUESTED, CONFIRMED, DENIED}

validate_state_any_state(inst, request_user, value) ==
    IF inst = NoInst THEN TRUE
    ELSE IF inst.state = value THEN TRUE
    ELSE can_approve_reservations(inst.resource, request_user)

validate_state_no_approval(inst, request_user, value) ==
    IF inst = NoInst THEN TRUE
    ELSE IF inst.state = value THEN TRUE
    ELSE inst.state \in AllowedStates /\ value \in AllowedStates

validate_state(inst, request_user, value) ==
    IF inst = NoInst THEN TRUE
    ELSE IF inst.state = value THEN TRUE
    ELSE /\ can_approve_reservations(inst.resource, request_user)
         /\ inst.state \in AllowedStates
         /\ value \in AllowedStates

(***************************************************************************)
(* ReservationSerializer.to_internal_value: the user field is looked up in *)
(* the user table; an id of no user is a validation error.                 *)
(***************************************************************************)
user_exists(user_data) == user_data \in 1..Len(UserTable)

InvalidUser == "invalid_user"

to_internal_value(user_data) ==
    IF user_data = 0 THEN NoVal
    ELSE IF user_exists(user_data) THEN UserTable[user_data]
    ELSE InvalidUser

(***************************************************************************)
(* ReservationSerializer.validate, lines 119-121: the user of the data     *)
(* after "normal users cannot make reservations for other people".         *)
(***************************************************************************)
pop_user_kept(resource, request_user, user) == user

pop_user(resource, request_user, user) ==
    IF ~is_admin(resource, request_user) THEN NoVal ELSE user

(***************************************************************************)
(* ReservationSerializer.validate up to the critical section: the first    *)
(* failing check, or "ok".                                                 *)
(***************************************************************************)
validate_unlocked(request_user, resource, begin, end, comments) ==
    IF ~can_make_reservations(resource, request_user) THEN "cannot_reserve"
    ELSE IF end < Now THEN "in_the_past"
    ELSE IF ~validate_reservation_period(resource, begin, end) THEN "invalid_period"
    ELSE IF comments /\ ~is_admin(resource, request_user) THEN "comments_not_allowed"
    ELSE "ok"

(***************************************************************************)
(* ReservationSerializer.validate inside the critical section.             *)
(***************************************************************************)
validate_locked(store, request_user, id, resource, begin, end) ==
    IF id = 0 /\ ~validate_max_reservations_per_user(store, resource, request_user)
        THEN "quota_exceeded"
    ELSE IF ~clean(store, resource, begin, end, id) THEN "collision"
    ELSE "ok"

(***************************************************************************)
(* ReservationPermission.has_object_permission                             *)
(***************************************************************************)
has_object_permission_owner_or_admin(safe, request_user, obj) ==
    IF safe THEN TRUE
    ELSE is_admin(obj.resource, request_user) \/ obj.user = request_user

has_object_permission_no_owner(safe, request_user, obj) ==
    IF safe THEN TRUE
    ELSE IF /\ need_manual_confirmation(obj.resource)
            /\ obj.state = CONFIRMED
            /\ ~can_approve_reservations(obj.resource, request_user)
        THEN FALSE
    ELSE is_admin(obj.resource, request_user)

has_object_permission(safe, request_user, obj) ==
    IF safe THEN TRUE
    ELSE IF /\ need_manual_confirmation(obj.resource)
            /\ obj.state = CONFIRMED
            /\ ~can_approve_reservations(obj.resource, request_user)
        THEN FALSE
    ELSE is_admin(obj.resource, request_user) \/ obj.user = request_user

(***************************************************************************)
(* ReservationViewSet.get_queryset: the ids the request user can see.      *)
(***************************************************************************)
get_queryset_any_admin(store, user) ==
    IF \E r \in Resources : is_admin(r, user) THEN 1..Len(store)
    ELSE {i \in 1..Len(store) :
            \/ store[i].state \in {CONFIRMED, REQUESTED}
            \/ (is_authenticated(user) /\ store[i].user = user)}

get_queryset(store, user) ==
    IF is_staff(user) THEN 1..Len(store)
    ELSE {i \in 1..Len(store) :
            \/ store[i].state \in {CONFIRMED, REQUESTED}
            \/ (is_authenticated(user) /\ store[i].user = user)}

\* ExcludePastFilterBackend, with the default all=false
ExcludePast(store, ids) == {i \in ids : store[i].end >= Now}

(***************************************************************************)
(* get_object of the view: the look-up through the filtered queryset and   *)
(* the object permission check; "ok", "not_found" or "permission_denied".  *)
(***************************************************************************)
get_object(store, safe, request_user, id) ==
    IF id \notin ExcludePast(store, get_queryset(store, request_user)) THEN "not_found"
    ELSE IF ~has_object_permission(safe, request_user, store[id]) THEN "permission_denied"
    ELSE "ok"

(***************************************************************************)
(* ReservationViewSet.perform_create: the store after the save.            *)
(***************************************************************************)
initial_state_from_payload(resource, state_in) ==
    IF state_in # NoVal THEN state_in
    ELSE IF need_manual_confirmation(resource) THEN REQUESTED ELSE CONFIRMED

initial_state(resource, state_in) ==
    IF need_manual_confirmation(resource) THEN REQUESTED ELSE CONFIRMED

perform_create(store, request_user, data) ==
    Append(store, [resource |-> data.resource,
                   user     |-> IF data.user = NoVal THEN request_user ELSE data.user,
                   begin    |-> data.begin,
                   end      |-> data.end,
                   state    |-> initial_state(data.resource, data.state)])

(***************************************************************************)
(* ReservationViewSet.perform_update after self.get_object() has returned  *)
(* old_instance: serializer.save() writes the instance the serializer      *)
(* holds (fetched when the request started) with the validated data        *)
(* applied; set_state then applies the new state, which defaults to the    *)
(* state of old_instance.                                                  *)
(***************************************************************************)
saved_instance(inst, data) ==
    [resource |-> data.resource,
     user     |-> IF data.user = NoVal THEN inst.user ELSE data.user,
     begin    |-> data.begin,
     end      |-> data.end,
     state    |-> inst.state]

perform_update(store, id, inst, data, old_instance) ==
    LET new_state == IF data.state = NoVal THEN old_instance.state ELSE data.state
        new_instance == saved_instance(inst, data)
    IN  set_state([store EXCEPT ![id] = new_instance], id, new_instance, new_state)

(***************************************************************************)
(* ReservationViewSet.perform_destroy                                      *)
(***************************************************************************)
perform_destroy_delete_row(store, id, inst) ==
    [i \in 1..(Len(store) - 1) |-> IF i < id THEN store[i] ELSE store[i + 1]]

perform_destroy(store, id, inst) ==
    set_state(store, id, inst, CANCELLED)

(***************************************************************************)
(* The workers and the requests they handle.                               *)
(***************************************************************************)
Procs == {"p1", "p2"}
NoProc == "nobody"

NoData == [resource |-> NoVal, begin |-> 0, end |-> 0, user |-> NoVal, state |-> NoVal]

Idle == [pc |-> "idle", kind |-> NoVal, actor |-> NoVal, id |-> 0, inst |-> NoInst,
         old |-> NoInst, data |-> NoData, log |-> FALSE, user_data |-> 0, status |-> NoVal,
         mail |-> NoVal, ids |-> {}]

Init ==
    /\ reservations = <<>>
    /\ lock = [r \in Resources |-> NoProc]
    /\ req = [p \in Procs |-> Idle]
    /\ started = 0

\* a worker takes a new request when it is idle
Ready(p) == req[p].pc = "idle" /\ started < MaxRequests

InFlightCreates ==
    Cardinality({q \in Procs : req[q].kind = "create" /\ req[q].pc \in {"lock", "save"}})

\* The response leaves the worker.  A worker that logs its requests keeps the
\* request and its response until Finish; the others are idle at once.
Respond(r, status) ==
    IF r.log THEN [r EXCEPT !.pc = "done", !.status = status] ELSE Idle

\* The requests given to the workers that keep no log: a request by an
\* authenticated actor, of a period that passes the period checks, without user
\* and comments fields, a creation without state field.  (A request rejected before the critical section reads
\* and writes nothing another worker can see.)
ActorsOf(log) == IF log THEN Actors ELSE Users
PeriodsOf(log) == IF log THEN Periods ELSE {pd \in Periods : pd[2] >= Now /\ pd[2] > pd[1]}
UserDataOf(log) == IF log THEN UserData ELSE {0}
\* the state field of a creation, which perform_create overrides
CreateStatesOf(log) == IF log THEN PayloadStates ELSE {NoVal}
CommentsOf(log) == IF log THEN BOOLEAN ELSE {FALSE}

\* Resource.objects.select_for_update().get(pk=resource.pk): blocks while
\* another transaction holds the row lock of the resource
select_for_update_unlocked(lk, resource) == TRUE

select_for_update(lk, resource) == lk[resource] = NoProc

\* the end of the request's transaction releases the row lock it holds
Release(lk, p) == [r \in Resources |-> IF lk[r] = p THEN NoProc ELSE lk[r]]

(***************************************************************************)
(* POST: the permission classes, ReservationSerializer.is_valid up to the  *)
(* critical section of validate().                                         *)
(***************************************************************************)
CreateRequest(p, log) ==
    /\ Ready(p)
    /\ Len(reservations) + InFlightCreates < MaxReservations
    /\ \E actor \in ActorsOf(log), resource \in Resources, period \in PeriodsOf(log),
          user_data \in UserDataOf(log), state_in \in CreateStatesOf(log), comments \in CommentsOf(log) :
        LET user == to_internal_value(user_data)
            data == [resource |-> resource, begin |-> period[1], end |-> period[2],
                     user |-> IF user = InvalidUser THEN NoVal
                              ELSE pop_user(resource, actor, user),
                     state |-> state_in]
            status == IF ~is_authenticated(actor) THEN "not_authenticated"
                      ELSE IF user = InvalidUser THEN "invalid_user"
                      ELSE validate_unlocked(actor, resource, period[1], period[2], comments)
            r == [Idle EXCEPT !.log = log, !.kind = "create", !.actor = actor, !.data = data,
                              !.user_data = user_data]
        IN  req' = [req EXCEPT ![p] = IF status = "ok" THEN [r EXCEPT !.pc = "lock"]
                                      ELSE Respond(r, status)]
    /\ started' = started + 1
    /\ UNCHANGED <<reservations, lock>>

(***************************************************************************)
(* PUT: get_object with the object permission, then is_valid up to the     *)
(* critical section of validate().                                         *)
(***************************************************************************)
UpdateRequest(p, log) ==
    /\ Ready(p)
    /\ \E actor \in ActorsOf(log), id \in Ids, resource \in Resources, period \in PeriodsOf(log),
          user_data \in UserDataOf(log), state_in \in PayloadStates, comments \in CommentsOf(log) :
        LET user == to_internal_value(user_data)
            found == IF ~is_authenticated(actor) THEN "not_authenticated"
                     ELSE get_object(reservations, FALSE, actor, id)
            inst == IF found \in {"ok", "permission_denied"} THEN reservations[id] ELSE NoInst
            data == [resource |-> resource, begin |-> period[1], end |-> period[2],
                     user |-> IF user = InvalidUser THEN NoVal
                              ELSE pop_user(resource, actor, user),
                     state |-> state_in]
            status == IF found # "ok" THEN found
                      ELSE IF state_in # NoVal /\ ~validate_state(inst, actor, state_in)
                          THEN "illegal_state"
                      ELSE IF user = InvalidUser THEN "invalid_user"
                      ELSE validate_unlocked(actor, resource, period[1], period[2], comments)
            r == [Idle EXCEPT !.log = log, !.kind = "update", !.actor = actor, !.id = id, !.inst = inst,
                              !.data = data, !.user_data = user_data]
        IN  req' = [req EXCEPT ![p] = IF status = "ok" THEN [r EXCEPT !.pc = "lock"]
                                      ELSE Respond(r, status)]
    /\ started' = started + 1
    /\ UNCHANGED <<reservations, lock>>

(***************************************************************************)
(* validate(), the critical section: the request waits for the row lock of *)
(* the resource of the data, takes it, and runs the quota check and the    *)
(* model clean.  A failure ends the request and its transaction.           *)
(***************************************************************************)
ValidateLocked(p) ==
    /\ req[p].pc = "lock"
    /\ select_for_update(lock, req[p].data.resource)
    /\ LET r == req[p]
           status == validate_locked(reservations, r.actor, r.id, r.data.resource,
                                     r.data.begin, r.data.end)
       IN  IF status = "ok"
           THEN /\ req' = [req EXCEPT ![p].pc = "save"]
                /\ lock' = [lock EXCEPT ![r.data.resource] = p]
           ELSE /\ req' = [req EXCEPT ![p] = Respond(r, status)]
                /\ UNCHANGED lock
    /\ UNCHANGED <<reservations, started>>

(***************************************************************************)
(* perform_create, and the commit.                                         *)
(***************************************************************************)
PerformCreate(p) ==
    /\ req[p].pc = "save"
    /\ req[p].kind = "create"
    /\ LET r == req[p]
           store == perform_create(reservations, r.actor, r.data)
           instance == store[Len(store)]
       IN  /\ reservations' = store
           /\ req' = [req EXCEPT ![p] =
                        Respond([r EXCEPT
                                    !.id = Len(store),
                                    !.mail = IF instance.user # r.actor
                                             THEN instance.user ELSE NoVal],
                                "ok")]
    /\ lock' = Release(lock, p)
    /\ UNCHANGED started

(***************************************************************************)
(* perform_update, line 315: self.get_object() runs the look-up and the    *)
(* permission check again, on the rows committed by now, and can fail.     *)
(***************************************************************************)
GetOldInstance(p) ==
    /\ req[p].pc = "save"
    /\ req[p].kind = "update"
    /\ LET r == req[p]
           found == get_object(reservations, FALSE, r.actor, r.id)
       IN  IF found # "ok"
           THEN /\ req' = [req EXCEPT ![p] = Respond(r, found)]
                /\ lock' = Release(lock, p)
           ELSE /\ req' = [req EXCEPT ![p].pc = "write", ![p].old = reservations[r.id]]
                /\ UNCHANGED lock
    /\ UNCHANGED <<reservations, started>>

(***************************************************************************)
(* perform_update, lines 316-320: the save, set_state and the commit.  The *)
(* rows another request committed since line 315 are overwritten.          *)
(***************************************************************************)
PerformUpdate(p) ==
    /\ req[p].pc = "write"
    /\ LET r == req[p]
           store == perform_update(reservations, r.id, r.inst, r.data, r.old)
           new_instance == store[r.id]
       IN  /\ reservations' = store
           /\ req' = [req EXCEPT ![p] =
                        Respond([r EXCEPT
                                    !.old = NoInst,
                                    !.mail = IF r.actor # new_instance.user
                                                /\ new_instance # r.old
                                             THEN new_instance.user ELSE NoVal],
                                "ok")]
    /\ lock' = Release(lock, p)
    /\ UNCHANGED started

(***************************************************************************)
(* DELETE: get_object with the object permission.                          *)
(***************************************************************************)
DestroyRequest(p, log) ==
    /\ Ready(p)
    /\ \E actor \in Actors, id \in Ids :
        LET found == IF ~is_authenticated(actor) THEN "not_authenticated"
                     ELSE get_object(reservations, FALSE, actor, id)
            inst == IF found \in {"ok", "permission_denied"} THEN reservations[id] ELSE NoInst
            r == [Idle EXCEPT !.log = log, !.kind = "destroy", !.actor = actor, !.id = id, !.inst = inst]
        IN  req' = [req EXCEPT ![p] = IF found = "ok" THEN [r EXCEPT !.pc = "destroy"]
                                      ELSE Respond(r, found)]
    /\ started' = started + 1
    /\ UNCHANGED <<reservations, lock>>

(***************************************************************************)
(* perform_destroy, and the commit.                                        *)
(***************************************************************************)
PerformDestroy(p) ==
    /\ req[p].pc = "destroy"
    /\ LET r == req[p]
       IN  /\ reservations' = perform_destroy(reservations, r.id, r.inst)
           /\ req' = [req EXCEPT ![p] =
                        Respond([r EXCEPT
                                    !.mail = IF r.actor # r.inst.user
                                             THEN r.inst.user ELSE NoVal],
                                "ok")]
    /\ UNCHANGED <<lock, started>>

(***************************************************************************)
(* GET of one reservation: a safe method.                                  *)
(***************************************************************************)
RetrieveRequest(p, log) ==
    /\ Ready(p)
    /\ \E actor \in Actors, id \in Ids :
        LET found == get_object(reservations, TRUE, actor, id)
            inst == IF found = "ok" THEN reservations[id] ELSE NoInst
        IN  req' = [req EXCEPT ![p] =
                      Respond([Idle EXCEPT !.log = log, !.kind = "retrieve", !.actor = actor, !.id = id,
                                           !.inst = inst], found)]
    /\ started' = started + 1
    /\ UNCHANGED <<reservations, lock>>

(***************************************************************************)
(* GET of the listing: the queryset of get_queryset through the filter     *)
(* backends (no query parameters).                                         *)
(***************************************************************************)
ListRequest(p, log) ==
    /\ Ready(p)
    /\ \E actor \in Actors :
        req' = [req EXCEPT ![p] =
                  Respond([Idle EXCEPT !.log = log, !.kind = "list", !.actor = actor,
                                       !.ids = ExcludePast(reservations,
                                                           get_queryset(reservations, actor))],
                          "ok")]
    /\ started' = started + 1
    /\ UNCHANGED <<reservations, lock>>

(***************************************************************************)
(* The response has been sent: the worker is idle again.                   *)
(***************************************************************************)
Finish(p) ==
    /\ req[p].pc = "done"
    /\ req' = [req EXCEPT ![p] = Idle]
    /\ UNCHANGED <<reservations, lock, started>>

Handle(p, log) ==
    \/ CreateRequest(p, log)
    \/ UpdateRequest(p, log)
    \/ ValidateLocked(p)
    \/ PerformCreate(p)
    \/ GetOldInstance(p)
    \/ PerformUpdate(p)
    \/ DestroyRequest(p, log)
    \/ PerformDestroy(p)
    \/ RetrieveRequest(p, log)
    \/ ListRequest(p, log)

\* one worker, which logs its requests: they are handled one after the other
Next == Handle("p1", TRUE) \/ Finish("p1")

Spec == Init /\ [][Next]_vars

\* two workers: requests are handled concurrently
NextConc == \E p \in Procs : Handle(p, FALSE)

SpecConc == Init /\ [][NextConc]_vars

(***************************************************************************)
(* Properties.                                                             *)
(***************************************************************************)
Done(p, kind) == req[p].pc = "done" /\ req[p].kind = kind

\* the request found its reservation and passed the object permission
Fetched(r) == r.inst # NoInst /\ r.status # "permission_denied"

Active(i) == reservations[i].state \in ActiveStates

InCriticalSection(p) == req[p].pc \in {"save", "write"}

\* C1: two reservations of one resource that are both active never overlap,
\* whatever the interleaving of the requests
NoDoubleBooking ==
    \A i, j \in Ids :
        (i # j /\ Active(i) /\ Active(j)
            /\ reservations[i].resource = reservations[j].resource)
        => ~Overlaps(reservations[i].begin, reservations[i].end,
                     reservations[j].begin, reservations[j].end)

\* C1: a request inside the critical section holds the lock of its resource,
\* and what its quota and clean checks found still holds when it saves
ChecksHoldAtSave ==
    \A p \in Procs :
        /\ InCriticalSection(p) => lock[req[p].data.resource] = p
        /\ InCriticalSection(p) =>
               validate_locked(reservations, req[p].actor, req[p].id, req[p].data.resource,
                               req[p].data.begin, req[p].data.end) = "ok"

\* C1: a request waiting for the lock is blocked only by a request that is inside
\* the critical section of the same resource
BlockedOnlyBySameResource ==
    \A p \in Procs :
        (/\ req[p].pc = "lock"
         /\ \A q \in Procs \ {p} :
                ~(InCriticalSection(q) /\ req[q].data.resource = req[p].data.resource))
        => ENABLED ValidateLocked(p)

\* C1: for any interleaving of concurrent requests on a resource, at most one of
\* two requests that the period or quota rules forbid together persists its
\* reservation: the lock is held from before the quota and clean checks to the
\* save, and requests on different resources do not block each other.
C1_SerializedCreates ==
    /\ NoDoubleBooking
    /\ ChecksHoldAtSave
    /\ BlockedOnlyBySameResource

\* two creations of overlapping periods on one resource, one about to save inside
\* the critical section, the other waiting for the lock
C1_Witness ==
    \E p, q \in Procs :
        /\ p # q
        /\ req[p].kind = "create" /\ req[q].kind = "create"
        /\ req[p].data.resource = req[q].data.resource
        /\ Overlaps(req[p].data.begin, req[p].data.end, req[q].data.begin, req[q].data.end)
        /\ req[p].pc = "save"
        /\ req[q].pc = "lock"

\* the object-level write permission, as the claims state it
WritePermitted(actor, obj) ==
    IF /\ need_manual_confirmation(obj.resource)
       /\ obj.state = CONFIRMED
       /\ ~can_approve_reservations(obj.resource, actor)
    THEN FALSE
    ELSE is_admin(obj.resource, actor) \/ obj.user = actor

\* the state rules of an update as C2 states them, for the request r
StateRules(r) ==
    LET old == r.inst.state
        value == r.data.state
        approver == can_approve_reservations(r.inst.resource, r.actor)
    IN  /\ value = old =>
            /\ r.status \notin {"illegal_state", "permission_denied"}
            /\ r.status = "ok" => reservations[r.id].state = old
        /\ (value # old /\ ~approver) =>
            /\ r.status = "illegal_state"
            /\ reservations[r.id].state = old
        /\ (value # old /\ approver /\ old \in AllowedStates /\ value \in AllowedStates) =>
            /\ r.status \notin {"illegal_state", "permission_denied"}
            /\ r.status = "ok" => reservations[r.id].state = value

\* C2 as claimed: on update of an existing reservation, an actor with approval
\* capability may change the state between any two of REQUESTED, CONFIRMED, DENIED;
\* any actor without it who submits a state other than the current one is rejected
\* with the illegal-state error and the stored state is unchanged; the current
\* state is accepted from every actor.
C2_StateCheckForEveryActor ==
    \A p \in Procs :
        (Done(p, "update") /\ req[p].inst # NoInst /\ req[p].data.state # NoVal) =>
            StateRules(req[p])

\* C2 as amended: an update by an actor the object-level write permission denies
\* is rejected with permission denied whatever state it submits, the current one
\* included, and the stored state is unchanged; for an actor it permits, the state
\* rules are as claimed: an approver may change the state between any two of
\* REQUESTED, CONFIRMED, DENIED, a non-approver who submits another state than the
\* current one is rejected with the illegal-state error and the stored state is
\* unchanged, and the current state is accepted.
C2_StateChangeAuthority ==
    \A p \in Procs :
        (Done(p, "update") /\ req[p].inst # NoInst /\ req[p].data.state # NoVal) =>
            IF WritePermitted(req[p].actor, req[p].inst)
            THEN StateRules(req[p])
            ELSE /\ req[p].status = "permission_denied"
                 /\ reservations[req[p].id].state = req[p].inst.state

\* an approver has moved a reservation from DENIED to REQUESTED
C2_Witness ==
    \E p \in Procs :
        /\ Done(p, "update")
        /\ req[p].status = "ok"
        /\ can_approve_reservations(req[p].inst.resource, req[p].actor)
        /\ req[p].inst.state = DENIED
        /\ req[p].data.state = REQUESTED
        /\ reservations[req[p].id].state = REQUESTED

\* C3: a created reservation starts in REQUESTED when its resource needs manual
\* confirmation and in CONFIRMED otherwise, for every actor and whatever state the
\* request supplied.
C3_InitialState ==
    \A p \in Procs :
        (Done(p, "create") /\ req[p].status = "ok") =>
            /\ req[p].id \in Ids
            /\ reservations[req[p].id].state =
                  IF need_manual_confirmation(reservations[req[p].id].resource)
                  THEN REQUESTED ELSE CONFIRMED

\* an administrator has created a reservation with state DENIED in the payload
C3_Witness ==
    \E p \in Procs :
        /\ Done(p, "create")
        /\ req[p].status = "ok"
        /\ is_admin(req[p].data.resource, req[p].actor)
        /\ req[p].data.state = DENIED
        /\ reservations[req[p].id].state \in {REQUESTED, CONFIRMED}

\* C4: an accepted delete leaves the record in the store, with state CANCELLED and
\* every other field as it was.
C4_DeleteCancels ==
    \A p \in Procs :
        (Done(p, "destroy") /\ req[p].status = "ok") =>
            /\ req[p].id \in Ids
            /\ reservations[req[p].id] = [req[p].inst EXCEPT !.state = CANCELLED]

\* a CONFIRMED reservation has been deleted
C4_Witness ==
    \E p \in Procs :
        /\ Done(p, "destroy")
        /\ req[p].status = "ok"
        /\ req[p].inst.state = CONFIRMED
        /\ reservations[req[p].id].state = CANCELLED

\* a creation by an authenticated actor who does not administer the resource,
\* with a user field
ForeignUserCreate(r) ==
    /\ r.pc = "done"
    /\ r.kind = "create"
    /\ is_authenticated(r.actor)
    /\ ~is_admin(r.data.resource, r.actor)
    /\ r.user_data # 0

\* C5 as claimed: a creation by a non-administrator never fails because of its user
\* field, whatever the field carries, and the saved owner is the actor.
C5_UserFieldNeverFails ==
    \A p \in Procs :
        (ForeignUserCreate(req[p]) /\ to_internal_value(req[p].user_data) # req[p].actor) =>
            /\ req[p].status # "invalid_user"
            /\ req[p].status = "ok" => reservations[req[p].id].user = req[p].actor

\* C5 as amended: a user field that names another existing user never fails the
\* creation of a non-administrator and is discarded, the saved owner being the
\* actor; a user field that names no existing user fails the creation with the
\* user error, for administrators and non-administrators alike.
C5_ExistingUserDiscarded ==
    \A p \in Procs :
        /\ ForeignUserCreate(req[p]) =>
            /\ user_exists(req[p].user_data) =>
                /\ req[p].status # "invalid_user"
                /\ req[p].status = "ok" => reservations[req[p].id].user = req[p].actor
            /\ ~user_exists(req[p].user_data) => req[p].status = "invalid_user"
        /\ (/\ Done(p, "create")
            /\ is_authenticated(req[p].actor)
            /\ req[p].user_data # 0
            /\ ~user_exists(req[p].user_data)) => req[p].status = "invalid_user"

\* a normal user has created a reservation naming another existing user
C5_Witness ==
    \E p \in Procs :
        /\ ForeignUserCreate(req[p])
        /\ user_exists(req[p].user_data)
        /\ UserTable[req[p].user_data] # req[p].actor
        /\ req[p].status = "ok"
        /\ reservations[req[p].id].user = req[p].actor

C6_Permission ==
    \A p \in Procs :
        /\ (req[p].pc = "done" /\ req[p].kind \in {"update", "destroy"} /\ req[p].inst # NoInst) =>
               (req[p].status = "permission_denied" <=> ~WritePermitted(req[p].actor, req[p].inst))
        /\ Done(p, "retrieve") => req[p].status # "permission_denied"

C6_NoChangeByNonApprover ==
    \A i \in Ids :
        (/\ need_manual_confirmation(reservations[i].resource)
         /\ reservations[i].state = CONFIRMED
         /\ reservations'[i] # reservations[i])
        => \E p \in Procs :
              /\ req'[p] # req[p]
              /\ can_approve_reservations(reservations[i].resource, req[p].actor)

\* C6: a write to a reservation is denied when the reservation needs manual
\* confirmation, is CONFIRMED and the actor cannot approve, the owner included;
\* otherwise it is permitted exactly to the administrators of the resource and the
\* owner; reads are always permitted; so no request of a non-approver changes or
\* cancels a CONFIRMED reservation of a manual-confirmation resource.
C6_WritePermission == []C6_Permission /\ [][C6_NoChangeByNonApprover]_vars

\* the owner, who cannot approve, was denied the update of their CONFIRMED
\* reservation of a manual-confirmation resource
C6_Witness ==
    \E p \in Procs :
        /\ Done(p, "update")
        /\ req[p].inst # NoInst
        /\ req[p].inst.user = req[p].actor
        /\ need_manual_confirmation(req[p].inst.resource)
        /\ req[p].inst.state = CONFIRMED
        /\ ~can_approve_reservations(req[p].inst.resource, req[p].actor)
        /\ req[p].status = "permission_denied"

\* step 3 of the sequence: the owner U, not an administrator, asks for REQUESTED on
\* their reservation of a manual-confirmation resource that an approver confirmed
BackToRequested(r) ==
    /\ r.pc = "done"
    /\ r.kind = "update"
    /\ r.inst # NoInst
    /\ need_manual_confirmation(r.inst.resource)
    /\ r.inst.user = r.actor
    /\ ~is_admin(r.inst.resource, r.actor)
    /\ r.inst.state = CONFIRMED
    /\ r.data.state = REQUESTED

\* step 1: a non-administrator creates a reservation on a manual-confirmation resource
CreatedByUser(r) ==
    /\ r.pc = "done"
    /\ r.kind = "create"
    /\ r.status = "ok"
    /\ need_manual_confirmation(r.data.resource)
    /\ ~is_admin(r.data.resource, r.actor)

\* step 2: an approving administrator, not the owner, asks for CONFIRMED on a
\* REQUESTED reservation of a manual-confirmation resource, changing nothing else
ConfirmedByAdmin(r) ==
    /\ r.pc = "done"
    /\ r.kind = "update"
    /\ r.inst # NoInst
    /\ need_manual_confirmation(r.inst.resource)
    /\ can_approve_reservations(r.inst.resource, r.actor)
    /\ r.inst.user # r.actor
    /\ r.inst.state = REQUESTED
    /\ r.data.state = CONFIRMED
    /\ r.data.resource = r.inst.resource
    /\ r.data.begin = r.inst.begin
    /\ r.data.end = r.inst.end
    /\ r.user_data = 0

\* C7 as claimed: step 3 is rejected with the illegal-state error and the state
\* stays CONFIRMED.
C7_RejectedAsIllegalState ==
    \A p \in Procs :
        BackToRequested(req[p]) =>
            /\ req[p].status = "illegal_state"
            /\ reservations[req[p].id].state = CONFIRMED

\* C7 as amended: step 1 gives REQUESTED and owner U, step 2 succeeds and notifies
\* U, step 3 is rejected by the object permission (permission denied, not the
\* illegal-state error) and the state stays CONFIRMED.
C7_RejectedByPermission ==
    \A p \in Procs :
        /\ CreatedByUser(req[p]) =>
            /\ reservations[req[p].id].state = REQUESTED
            /\ reservations[req[p].id].user = req[p].actor
        /\ ConfirmedByAdmin(req[p]) =>
            /\ req[p].status = "ok"
            /\ reservations[req[p].id].state = CONFIRMED
            /\ req[p].mail = req[p].inst.user
        /\ BackToRequested(req[p]) =>
            /\ req[p].status = "permission_denied"
            /\ reservations[req[p].id].state = CONFIRMED

\* step 3 has been answered
C7_Witness ==
    \E p \in Procs :
        /\ BackToRequested(req[p])
        /\ req[p].status = "permission_denied"

\* C8 as claimed: a delete is accepted exactly when the state check of the update
\* path accepts CANCELLED for the same actor and reservation.
C8_DeleteCheckedAsUpdate ==
    \A p \in Procs :
        (Done(p, "destroy") /\ req[p].inst # NoInst) =>
            (req[p].status = "ok" <=> validate_state(req[p].inst, req[p].actor, CANCELLED))

\* C8 as amended: a delete is decided by the object permission alone and then
\* sets CANCELLED; the state check of the update path rejects CANCELLED for every
\* actor unless the reservation is CANCELLED already.
C8_DeleteCheckedByPermission ==
    \A p \in Procs :
        /\ (Done(p, "destroy") /\ req[p].inst # NoInst) =>
            /\ req[p].status = "ok" <=>
                  /\ is_admin(req[p].inst.resource, req[p].actor)
                        \/ req[p].inst.user = req[p].actor
                  /\ ~(/\ need_manual_confirmation(req[p].inst.resource)
                       /\ req[p].inst.state = CONFIRMED
                       /\ ~can_approve_reservations(req[p].inst.resource, req[p].actor))
            /\ req[p].status = "ok" => reservations[req[p].id].state = CANCELLED
        /\ (/\ Done(p, "update")
            /\ Fetched(req[p])
            /\ req[p].data.state = CANCELLED
            /\ req[p].inst.state # CANCELLED) =>
                /\ req[p].status = "illegal_state"
                /\ reservations[req[p].id].state = req[p].inst.state

\* an owner who cannot approve has deleted their REQUESTED reservation
C8_Witness ==
    \E p \in Procs :
        /\ Done(p, "destroy")
        /\ req[p].status = "ok"
        /\ req[p].inst.user = req[p].actor
        /\ ~can_approve_reservations(req[p].inst.resource, req[p].actor)
        /\ req[p].inst.state = REQUESTED
        /\ reservations[req[p].id].state = CANCELLED

PublicIds == {i \in Ids : reservations[i].state \in {CONFIRMED, REQUESTED}}
OwnIds(user) == {i \in Ids : reservations[i].user = user}

\* C9 as claimed: an administrator, resource-scoped or global staff, is listed all
\* reservations; a non-staff authenticated user their own and the CONFIRMED and
\* REQUESTED ones; an unauthenticated user the CONFIRMED and REQUESTED ones.
C9_AdminsSeeAll ==
    \A p \in Procs :
        Done(p, "list") =>
            req[p].ids =
                IF is_staff(req[p].actor) \/ \E res \in Resources : is_admin(res, req[p].actor)
                    THEN Ids
                ELSE IF is_authenticated(req[p].actor)
                    THEN OwnIds(req[p].actor) \cup PublicIds
                ELSE PublicIds

\* C9 as amended: global staff is listed all reservations; every other
\* authenticated user, an administrator of a resource included, their own and the
\* CONFIRMED and REQUESTED ones; an unauthenticated user the CONFIRMED and
\* REQUESTED ones.
C9_StaffSeeAll ==
    \A p \in Procs :
        Done(p, "list") =>
            /\ req[p].ids =
                  IF is_staff(req[p].actor) THEN Ids
                  ELSE IF is_authenticated(req[p].actor)
                      THEN OwnIds(req[p].actor) \cup PublicIds
                  ELSE PublicIds
            /\ ~is_staff(req[p].actor) =>
                  \A i \in req[p].ids :
                      reservations[i].state \in {DENIED, CANCELLED}
                          => reservations[i].user = req[p].actor

\* the administrator of a resource, not staff, was listed the reservations and a
\* DENIED or CANCELLED reservation of that resource owned by someone else is not
\* among them
C9_Witness ==
    \E p \in Procs :
        /\ Done(p, "list")
        /\ ~is_staff(req[p].actor)
        /\ \E i \in Ids :
              /\ is_admin(reservations[i].resource, req[p].actor)
              /\ reservations[i].state \in {DENIED, CANCELLED}
              /\ reservations[i].user # req[p].actor
              /\ i \notin req[p].ids

\* a step of a worker that ends an update request
UpdateStep == \E p \in Procs : req[p].kind = "update" /\ req'[p] # req[p]

C10_Step ==
    \A i \in Ids :
        /\ reservations[i].state = CANCELLED => reservations'[i].state = CANCELLED
        /\ (UpdateStep /\ reservations'[i].state = CANCELLED)
              => reservations[i].state = CANCELLED

\* C10: under any interleaving of create, update and delete requests, a
\* reservation whose stored state is CANCELLED stays CANCELLED, and no update
\* request moves a reservation into CANCELLED.
C10_CancelledAbsorbing == [][C10_Step]_vars

====
